---- MODULE Spec2Model ----
(***************************************************************************)
(* Model of src/app.py: the Streamlit order form of Rotogal.  One script   *)
(* run renders the line form, the order overview, builds the one-page PDF  *)
(* (build_pdf), performs the Microsoft Graph actions and offers the        *)
(* download.  Texts are sequences of one-character strings.  A Python      *)
(* float is modelled by the exact rational [n, d] (d > 0, lowest terms) it *)
(* stands for, or by one of the special values nan, inf, -inf.             *)
(***************************************************************************)
EXTENDS Integers, Sequences, FiniteSets, TLC

VARIABLES
    order_lines,    \* st.session_state.order_lines
    pc,             \* where the current script run stands
    event,          \* the interaction that started the run
    sidebar,        \* the sidebar values build_pdf reads as meta
    auto_filename,  \* auto_filename
    flags,          \* auto_upload, auto_email
    msgs,           \* what st.info/success/warning/error have shown in this run
    pdf,            \* pdf_buffer
    download,       \* the download button of this run
    aborted,        \* an uncaught exception ended the run
    call, arg, ret  \* a direct call of one helper: which, its argument, its result

vars == <<order_lines, pc, event, sidebar, auto_filename, flags, msgs, pdf, download,
          aborted, call, arg, ret>>

appVars == <<order_lines, pc, event, sidebar, auto_filename, flags, msgs, pdf, download,
             aborted>>

----------------------------------------------------------------------------
(* Characters and texts *)

UpperChars == <<"A","B","C","D","E","F","G","H","I","J","K","L","M",
                "N","O","P","Q","R","S","T","U","V","W","X","Y","Z">>
LowerChars == <<"a","b","c","d","e","f","g","h","i","j","k","l","m",
                "n","o","p","q","r","s","t","u","v","w","x","y","z">>
DigitChars == <<"0","1","2","3","4","5","6","7","8","9">>

Range(s) == {s[i] : i \in DOMAIN s}

IsUpper(c) == c \in Range(UpperChars)
IsLetter(c) == c \in Range(UpperChars) \cup Range(LowerChars)
IsDigit(c) == c \in Range(DigitChars)
\* str.isspace of one character: blank, tab, newline, and the non-ASCII
\* no-break space (written "~" here)
IsSpace(c) == c \in {" ", "\t", "\n", "~"}

\* str.lower, one character
LowerChar(c) ==
    IF IsUpper(c)
    THEN LowerChars[CHOOSE i \in 1..26 : UpperChars[i] = c]
    ELSE c

\* str.lower
Lower(s) == [i \in DOMAIN s |-> LowerChar(s[i])]

\* str.strip
Strip(s) ==
    LET keep == {i \in DOMAIN s : ~IsSpace(s[i])}
    IN  IF keep = {} THEN <<>>
        ELSE LET lo == CHOOSE i \in keep : \A j \in keep : i <= j
                 hi == CHOOSE i \in keep : \A j \in keep : i >= j
             IN  SubSeq(s, lo, hi)

\* str.replace for a one-character pattern
ReplaceChar(s, old, new) == [i \in DOMAIN s |-> IF s[i] = old THEN new ELSE s[i]]

\* str.endswith
EndsWith(s, suffix) ==
    /\ Len(s) >= Len(suffix)
    /\ SubSeq(s, Len(s) - Len(suffix) + 1, Len(s)) = suffix

RECURSIVE Join(_, _)
\* sep.join(parts)
Join(sep, parts) ==
    IF parts = <<>> THEN <<>>
    ELSE IF Len(parts) = 1 THEN parts[1]
    ELSE parts[1] \o sep \o Join(sep, Tail(parts))

RECURSIVE Digits(_)
\* str(n) for an integer n >= 0
Digits(n) ==
    IF n < 10 THEN <<DigitChars[n + 1]>>
    ELSE Digits(n \div 10) \o <<DigitChars[(n % 10) + 1]>>

\* str(n) for an integer
IntStr(n) == IF n < 0 THEN <<"-">> \o Digits(0 - n) ELSE Digits(n)

----------------------------------------------------------------------------
(* Exact rationals standing for finite floats *)

Abs(n) == IF n < 0 THEN 0 - n ELSE n

RECURSIVE GCD(_, _)
GCD(a, b) == IF b = 0 THEN a ELSE GCD(b, a % b)

Rat(n, d) ==
    LET g == GCD(Abs(n), d)
    IN  IF n = 0 THEN [n |-> 0, d |-> 1] ELSE [n |-> n \div g, d |-> d \div g]

RatInt(k) == [n |-> k, d |-> 1]
RatAdd(a, b) == Rat(a.n * b.d + b.n * a.d, a.d * b.d)
RatMul(a, b) == Rat(a.n * b.n, a.d * b.d)
RatDiv(a, b) == IF b.n < 0 THEN Rat((0 - a.n) * b.d, a.d * (0 - b.n))
                ELSE Rat(a.n * b.d, a.d * b.n)
RatLeq(a, b) == a.n * b.d <= b.n * a.d

RECURSIVE IsPowerOfTwo(_)
IsPowerOfTwo(d) ==
    IF d = 1 THEN TRUE
    ELSE IF d % 2 = 1 THEN FALSE
    ELSE IsPowerOfTwo(d \div 2)

----------------------------------------------------------------------------
(* Python values handed to the helpers *)

None == [t |-> "none"]
NaN == [t |-> "nan"]
Inf(neg) == [t |-> "inf", neg |-> neg]
Num(q) == [t |-> "num", q |-> q]
Str(s) == [t |-> "str", s |-> s]

RECURSIVE DigitsValue(_)
\* the integer a run of decimal digits denotes
DigitsValue(s) ==
    IF s = <<>> THEN 0
    ELSE DigitsValue(SubSeq(s, 1, Len(s) - 1)) * 10
         + ((CHOOSE i \in 1..10 : DigitChars[i] = s[Len(s)]) - 1)

RECURSIVE Pow10(_)
Pow10(k) == IF k = 0 THEN 1 ELSE 10 * Pow10(k - 1)

\* float(text) for the texts of this model: optional sign, digits with at
\* most one decimal point, or the words nan / inf / infinity in any case;
\* anything else raises ValueError (the value "raise")
FloatOfStr(s0) ==
    LET s == Strip(s0)
        neg == s # <<>> /\ s[1] = "-"
        body == IF s # <<>> /\ s[1] \in {"-", "+"} THEN Tail(s) ELSE s
        dots == {i \in DOMAIN body : body[i] = "."}
        ip == IF dots = {} THEN body
              ELSE SubSeq(body, 1, (CHOOSE i \in dots : TRUE) - 1)
        fp == IF dots = {} THEN <<>>
              ELSE SubSeq(body, (CHOOSE i \in dots : TRUE) + 1, Len(body))
        mag == Rat(DigitsValue(ip) * Pow10(Len(fp)) + DigitsValue(fp), Pow10(Len(fp)))
    IN  IF Lower(body) = <<"n","a","n">> THEN NaN
        ELSE IF Lower(body) \in {<<"i","n","f">>, <<"i","n","f","i","n","i","t","y">>}
             THEN Inf(neg)
        ELSE IF /\ Cardinality(dots) <= 1
                /\ Len(ip) + Len(fp) > 0
                /\ \A i \in DOMAIN ip : IsDigit(ip[i])
                /\ \A i \in DOMAIN fp : IsDigit(fp[i])
             THEN Num(IF neg THEN Rat(0 - mag.n, mag.d) ELSE mag)
        ELSE [t |-> "raise"]

\* float(x)
ToFloat(x) ==
    IF x.t \in {"num", "nan", "inf"} THEN x
    ELSE IF x.t = "str" THEN FloatOfStr(x.s)
    ELSE [t |-> "raise"]

----------------------------------------------------------------------------
(* eur_fmt *)

RECURSIVE GroupThousands(_)
\* the integer part of format(v, ","): groups of three digits, "," between
GroupThousands(n) ==
    IF n < 1000 THEN Digits(n)
    ELSE GroupThousands(n \div 1000) \o <<",">>
         \o <<DigitChars[((n % 1000) \div 100) + 1],
              DigitChars[((n % 100) \div 10) + 1],
              DigitChars[(n % 10) + 1]>>

\* round(|q| * 100) as format(v, ".2f") rounds the double v: to nearest; a
\* value exactly half-way between two cents is an exact tie only when q
\* is a binary fraction (then half-to-even); any other such q is not a
\* double, and the double nearest to it lies above (up) or below it
RoundCents(q, up) ==
    LET a == Abs(q.n)
        whole == a \div q.d
        c100 == (a % q.d) * 100
        c == whole * 100 + (c100 \div q.d)
        r2 == 2 * (c100 % q.d)
    IN  IF r2 < q.d THEN c
        ELSE IF r2 > q.d THEN c + 1
        ELSE IF IsPowerOfTwo(q.d) THEN (IF c % 2 = 0 THEN c ELSE c + 1)
        ELSE IF up THEN c + 1 ELSE c

\* f"{v:,.2f}"
FormatComma2f(v, up) ==
    IF v.t = "nan" THEN <<"n","a","n">>
    ELSE IF v.t = "inf" THEN (IF v.neg THEN <<"-">> ELSE <<>>) \o <<"i","n","f">>
    ELSE LET c == RoundCents(v.q, up)
         IN  (IF v.q.n < 0 THEN <<"-">> ELSE <<>>)
             \o GroupThousands(c \div 100)
             \o <<".", DigitChars[((c % 100) \div 10) + 1], DigitChars[(c % 10) + 1]>>

eur_fmt_us_separators(x, up) ==
    LET v == ToFloat(x)
    IN  IF v.t = "raise" THEN <<>> ELSE FormatComma2f(v, up)

\* eur_fmt(x); up says on which side of an inexact half-cent the double lies
eur_fmt(x, up) ==
    LET v == ToFloat(x)
    IN  IF v.t = "raise" THEN <<>>
        ELSE ReplaceChar(ReplaceChar(ReplaceChar(FormatComma2f(v, up),
                 ",", "_"), ".", ","), "_", ".")

----------------------------------------------------------------------------
(* scale_mm *)

RECURSIVE RatSum(_)
\* sum(widths_mm)
RatSum(ws) == IF ws = <<>> THEN RatInt(0) ELSE RatAdd(Head(ws), RatSum(Tail(ws)))

scale_mm_inverted_factor(widths_mm, target_total_mm) ==
    LET s == RatSum(widths_mm)
    IN  IF RatLeq(s, RatInt(0)) THEN widths_mm
        ELSE LET f == RatDiv(s, target_total_mm)
             IN  [i \in DOMAIN widths_mm |-> RatMul(widths_mm[i], f)]

scale_mm(widths_mm, target_total_mm) ==
    LET s == RatSum(widths_mm)
    IN  IF RatLeq(s, RatInt(0)) THEN widths_mm
        ELSE LET f == RatDiv(target_total_mm, s)
             IN  [i \in DOMAIN widths_mm |-> RatMul(widths_mm[i], f)]

----------------------------------------------------------------------------
(* clean *)

NanWords == {<<"n","a","n">>, <<"n","o","n","e">>, <<"n","u","l","l">>}

\* clean(val): val is None, the missing value NaN of a DataFrame, or a text
clean(val) ==
    IF val.t = "none" THEN <<>>
    ELSE IF val.t = "nan" THEN <<>>
    ELSE LET sval == Strip(val.s)
         IN  IF Lower(sval) \in NanWords THEN <<>> ELSE sval

----------------------------------------------------------------------------
(* sanitize_filename *)

DefaultName == <<"s","u","p","p","l","i","e","r","_","o","r","d","e","r">>
PdfExt == <<".","p","d","f">>

\* re.sub(r"[^A-Za-z0-9\-\_\s\.]", "", name)
RemoveUnsafe(s) ==
    SelectSeq(s, LAMBDA c : IsLetter(c) \/ IsDigit(c) \/ IsSpace(c) \/ c \in {"-", "_", "."})

RECURSIVE SpacesToUnderscore(_)
\* re.sub(r"\s+", "_", safe): every maximal run of whitespace becomes one "_"
SpacesToUnderscore(s) ==
    IF s = <<>> THEN <<>>
    ELSE IF IsSpace(s[1])
         THEN IF Len(s) > 1 /\ IsSpace(s[2]) THEN SpacesToUnderscore(Tail(s))
              ELSE <<"_">> \o SpacesToUnderscore(Tail(s))
    ELSE <<s[1]>> \o SpacesToUnderscore(Tail(s))

sanitize_filename_keep_spaces(name) ==
    LET n0 == IF name.t = "none" THEN <<>> ELSE Strip(name.s)
        n1 == IF n0 = <<>> THEN DefaultName ELSE n0
        safe == RemoveUnsafe(n1)
    IN  IF EndsWith(Lower(safe), PdfExt) THEN safe ELSE safe \o PdfExt

\* sanitize_filename(name): name is None or a text
sanitize_filename(name) ==
    LET n0 == IF name.t = "none" THEN <<>> ELSE Strip(name.s)
        n1 == IF n0 = <<>> THEN DefaultName ELSE n0
        safe == SpacesToUnderscore(RemoveUnsafe(n1))
    IN  IF EndsWith(Lower(safe), PdfExt) THEN safe ELSE safe \o PdfExt

----------------------------------------------------------------------------
(* build_pdf: fonts *)

Max2(a, b) == IF a >= b THEN a ELSE b

body_font_off_by_one(n) ==
    LET rows == Max2(1, n)
    IN  IF rows < 18 THEN 8 ELSE IF rows < 24 THEN 7 ELSE 6

\* rows = max(1, len(lines_df)); body_font
body_font(n) ==
    LET rows == Max2(1, n)
    IN  IF rows <= 18 THEN 8 ELSE IF rows <= 24 THEN 7 ELSE 6

\* small_font
small_font(bf) == IF bf >= 7 THEN 7 ELSE 6

----------------------------------------------------------------------------
(* build_pdf: the article text of one row *)

\* row.get(key, default) on a row of pd.DataFrame(lines): a key that only
\* other lines carry is a column of the frame and reads as NaN
RowGet(lines, row, key, default) ==
    IF key \in DOMAIN row THEN row[key]
    ELSE IF \E i \in DOMAIN lines : key \in DOMAIN lines[i] THEN NaN
    ELSE default

article_parts_color_first(pg, model, color, wall, drain) ==
    (IF pg # <<>> THEN <<pg>> ELSE <<>>)
    \o (IF model # <<>> THEN <<<<"M","o","d","."," ">> \o model>> ELSE <<>>)
    \o (IF color # <<>> THEN <<color>> ELSE <<>>)
    \o (IF wall # <<>> THEN <<<<"(">> \o wall \o <<")">>>> ELSE <<>>)
    \o (IF pg = <<"B","i","n","s">> /\ drain # <<>> /\ Lower(drain) # <<"n","o","n","e">>
        THEN <<<<"d","r","a","i","n",":"," ">> \o drain>> ELSE <<>>)

\* parts, from the cleaned fields
article_parts(pg, model, color, wall, drain) ==
    (IF pg # <<>> THEN <<pg>> ELSE <<>>)
    \o (IF model # <<>> THEN <<<<"M","o","d","."," ">> \o model>> ELSE <<>>)
    \o (IF wall # <<>> THEN <<<<"(">> \o wall \o <<")">>>> ELSE <<>>)
    \o (IF color # <<>> THEN <<color>> ELSE <<>>)
    \o (IF pg = <<"B","i","n","s">> /\ drain # <<>> /\ Lower(drain) # <<"n","o","n","e">>
        THEN <<<<"d","r","a","i","n",":"," ">> \o drain>> ELSE <<>>)

\* article = ", ".join(parts)
article(lines, row) ==
    Join(<<","," ">>, article_parts(
        clean(RowGet(lines, row, "Product_group", Str(<<>>))),
        clean(RowGet(lines, row, "Model", Str(<<>>))),
        clean(RowGet(lines, row, "Color", Str(<<>>))),
        clean(RowGet(lines, row, "Wall_build", Str(<<>>))),
        clean(RowGet(lines, row, "Drain", Str(<<>>)))))

----------------------------------------------------------------------------
(* Presets and the session's line items *)

MaxLines == 2
MaxQty == 2

PRODUCT_TYPES ==
    [p \in {<<"B","i","n","s">>, <<"L","i","d","s">>, <<"B","u","g","g","i","e","s">>, <<"P","a","l","l","e","t","s">>} |->
        IF p = <<"B","i","n","s">> THEN {"Model", "Color", "Wall_build", "Drain"}
        ELSE IF p = <<"L","i","d","s">> THEN {"Model", "Color", "Wall_build"}
        ELSE {"Model", "Color"}]

\* what the widgets of line_form hold when the user leaves them alone:
\* empty text inputs, COLORS[1], WALL_BUILD[0], DRAIN_PLUG[0]
FormDefaults ==
    [Model |-> Str(<<>>), Color |-> Str(<<"B","l","u","e">>), Wall_build |-> Str(<<"E","P","E">>),
     Drain |-> Str(<<"N","o","n","e">>)]

\* the preselected product group; lines of the other groups are built in
\* ArticleArgs below
FormGroups == {<<"B","i","n","s">>}
FormPrices == {RatInt(0), RatInt(100)}

\* the widget values of one submit of line_form
FormInputs ==
    [product_type : FormGroups, qty : 1..MaxQty, net_price : FormPrices,
     values : {FormDefaults}, remark : {<<>>}]

add_line_at_front(lines, ptype, data) ==
    <<[k \in {"Product_group"} \cup DOMAIN data |->
        IF k = "Product_group" THEN Str(ptype) ELSE data[k]]>> \o lines

\* add_line(ptype, data)
add_line(lines, ptype, data) ==
    Append(lines, [k \in {"Product_group"} \cup DOMAIN data |->
                      IF k = "Product_group" THEN Str(ptype) ELSE data[k]])

\* reset_lines()
reset_lines == <<>>

\* the dict "line" of the submit branch of line_form
form_line(in) ==
    [k \in {"Quantity", "Note", "Net_price", "Total"} \cup PRODUCT_TYPES[in.product_type] |->
        CASE k = "Quantity" -> in.qty
          [] k = "Note" -> Str(in.remark)
          [] k = "Net_price" -> in.net_price
          [] k = "Total" -> RatMul(in.net_price, RatInt(in.qty))
          [] OTHER -> in.values[k]]

----------------------------------------------------------------------------
(* build_pdf *)

PageWidthMm == 210
left_margin == 15
right_margin == 15
target_total_mm == 180
base_mm == <<RatInt(10), RatInt(18), RatInt(85), RatInt(35), RatInt(12),
             RatInt(30), RatInt(30)>>

header == <<<<"P","o","s",".">>, <<"Q","u","a","n","t","i","t","y">>, <<"A","r","t","i","c","l","e">>, <<"N","o","t","e">>, <<"V","A","T"," ","%">>,
            <<"N","e","t"," ","p","r","i","c","e"," ","(","E","U","R",")">>, <<"T","o","t","a","l"," ","(","E","U","R",")">>>>

\* int(meta['vat_rate'] * 100): the product is a double; of the rates the
\* sidebar offers only 0.29 * 100 falls below its exact value (28.99...)
vat_percent(vat_rate) ==
    LET p == RatMul(vat_rate, RatInt(100))
    IN  IF vat_rate = Rat(29, 100) THEN 28 ELSE p.n \div p.d

\* one row of data, appended in the loop over lines_df.iterrows()
table_row(lines, row, pos, meta, up) ==
    <<IntStr(pos),
      IntStr(RowGet(lines, row, "Quantity", 0)),
      article(lines, row),
      clean(RowGet(lines, row, "Note", Str(<<>>))),
      IntStr(vat_percent(meta.vat_rate)) \o <<"%">>,
      eur_fmt(Num(RowGet(lines, row, "Net_price", RatInt(0))), up["net"]),
      eur_fmt(Num(RowGet(lines, row, "Total", RatInt(0))), up["net"])>>

RECURSIVE loop_rows(_, _, _, _, _)
loop_rows(lines, i, pos, meta, up) ==
    IF i > Len(lines) THEN <<>>
    ELSE <<table_row(lines, lines[i], pos, meta, up)>>
         \o loop_rows(lines, i + 1, pos + 1, meta, up)

table_data_from_zero(lines, meta, up) == <<header>> \o loop_rows(lines, 1, 0, meta, up)

\* data = [header] + one row per line, pos = 1, 2, ...
table_data(lines, meta, up) == <<header>> \o loop_rows(lines, 1, 1, meta, up)

RECURSIVE loop_net_sum(_, _, _)
loop_net_sum(lines, i, acc) ==
    IF i > Len(lines) THEN acc
    ELSE loop_net_sum(lines, i + 1,
                      RatAdd(acc, RowGet(lines, lines[i], "Total", RatInt(0))))

\* net_sum = 0.0; net_sum += total for every row
net_sum(lines) == loop_net_sum(lines, 1, RatInt(0))

vat_amount_on_gross(net, vat_rate) == RatMul(RatAdd(net, RatMul(net, vat_rate)), vat_rate)

\* vat_amount = net_sum * meta["vat_rate"]
vat_amount(net, vat_rate) == RatMul(net, vat_rate)

\* gross = net_sum + vat_amount
gross(net, vat) == RatAdd(net, vat)

\* build_pdf(meta, lines_df): what the page shows; up tells, for the cells,
\* the VAT amount and the gross amount, on which side of an inexact
\* half-cent the double lies
build_pdf(meta, lines, up) ==
    LET bf == body_font(Len(lines))
        net == net_sum(lines)
        vat == vat_amount(net, meta.vat_rate)
        gr == gross(net, vat)
    IN  [order_no |-> meta.order_no,
         vat_id |-> meta.vat_id,
         body_font |-> bf,
         small_font |-> small_font(bf),
         col_w_mm |-> scale_mm(base_mm, RatInt(target_total_mm)),
         data |-> table_data(lines, meta, up),
         net_sum |-> net,
         vat_amount |-> vat,
         gross |-> gr,
         totals |-> [net |-> eur_fmt(Num(net), up["net"]),
                     vat_label |-> <<"V","A","T"," ","(">> \o IntStr(vat_percent(meta.vat_rate)) \o <<"%",")",":">>,
                     vat |-> eur_fmt(Num(vat), up["vat"]),
                     gross |-> eur_fmt(Num(gr), up["gross"])]]

----------------------------------------------------------------------------
(* The sidebar and the environment of one script run *)

\* vat_choice, es_vat_rate -> vat_id, vat_rate
VatChoices ==
    {[vat_id |-> <<"D","E","2","9","4","7","5","0","9","4","0">>, vat_rate |-> Rat(0, 100)],
     [vat_id |-> <<"E","S","N","0","3","0","0","0","3","3","H">>, vat_rate |-> Rat(21, 100)],
     [vat_id |-> <<"E","S","N","0","3","0","0","0","3","3","H">>, vat_rate |-> Rat(43, 200)],
     [vat_id |-> <<"E","S","N","0","3","0","0","0","3","3","H">>, vat_rate |-> Rat(29, 100)]}

\* order_no
OrderNos == {<<>>, <<"P","O"," ","7">>}

\* HTTP status codes Graph may answer with
StatusCodes == {200, 299, 300, 404}

NoPdf == [t |-> "none"]
NoDownload == [t |-> "none"]
NoFlags == [auto_upload |-> FALSE, auto_email |-> FALSE]
NoEvent == [kind |-> "start"]
NoMeta == [order_no |-> <<>>, vat_id |-> <<>>, vat_rate |-> Rat(0, 100)]
NotCalled == [t |-> "notcalled"]

Msg(kind, what) == [kind |-> kind, what |-> what]
MsgCode(kind, what, code) == [kind |-> kind, what |-> what, code |-> code]

LibIdle == call = "app" /\ arg = None /\ ret = NotCalled

AppStart ==
    /\ order_lines = <<>>
    /\ pc = "done"
    /\ event = NoEvent
    /\ sidebar = NoMeta
    /\ auto_filename = <<>>
    /\ flags = NoFlags
    /\ msgs = <<>>
    /\ pdf = NoPdf
    /\ download = NoDownload
    /\ aborted = FALSE

\* the session after the first script run: order_lines = [], nothing built
Init == AppStart /\ LibIdle

\* a new script run starts: the page of the last run is dropped and the
\* sidebar widgets are read
BeginRun(ev) ==
    /\ pc = "done"
    /\ event' = ev
    /\ \E v \in VatChoices, o \in OrderNos :
          sidebar' = [order_no |-> o, vat_id |-> v.vat_id, vat_rate |-> v.vat_rate]
    /\ pc' = "form"
    /\ msgs' = <<>>
    /\ pdf' = NoPdf
    /\ download' = NoDownload
    /\ aborted' = FALSE
    /\ auto_filename' = <<>>
    /\ flags' = NoFlags
    /\ UNCHANGED <<order_lines, call, arg, ret>>

\* the user presses "Add position"
SubmitLine ==
    /\ Len(order_lines) < MaxLines
    /\ \E in \in FormInputs : BeginRun([kind |-> "add", in |-> in])

\* the user presses "Clear all positions"; the button is part of the page
\* only in a run that finds positions
PressClear ==
    /\ Len(order_lines) > 0
    /\ BeginRun([kind |-> "clear"])

\* the user changes any other widget
ChangeWidget ==
    /\ pc = "done"
    /\ BeginRun([kind |-> "rerun"])

\* with st.form("line_form"): if submitted: add_line(...)
LineForm ==
    /\ pc = "form"
    /\ IF event.kind = "add"
       THEN /\ order_lines' = add_line(order_lines, event.in.product_type, form_line(event.in))
            /\ msgs' = Append(msgs, Msg("success", "Position added."))
       ELSE UNCHANGED <<order_lines, msgs>>
    /\ pc' = "overview"
    /\ UNCHANGED <<event, sidebar, auto_filename, flags, pdf, download, aborted, call, arg, ret>>

\* Order overview, no positions: st.info, nothing is built or offered; the
\* interaction that started the run is consumed here
OverviewEmpty ==
    /\ pc = "overview"
    /\ Len(order_lines) = 0
    /\ msgs' = Append(msgs, Msg("info", "No positions added yet."))
    /\ event' = NoEvent
    /\ pc' = "done"
    /\ UNCHANGED <<order_lines, sidebar, auto_filename, flags, pdf, download, aborted,
                   call, arg, ret>>

\* Order overview with positions: the clear button, auto_filename, build_pdf
OverviewExport ==
    /\ pc = "overview"
    /\ Len(order_lines) > 0
    /\ IF event.kind = "clear"
       THEN /\ order_lines' = reset_lines
            /\ msgs' = Append(msgs, Msg("warning", "All positions cleared."))
       ELSE UNCHANGED <<order_lines, msgs>>
    /\ auto_filename' =
          sanitize_filename(Str(IF sidebar.order_no # <<>> THEN sidebar.order_no ELSE DefaultName))
    /\ \E up \in [{"net", "vat", "gross"} -> BOOLEAN] :
          pdf' = build_pdf(sidebar, order_lines', up)
    /\ event' = NoEvent
    /\ pc' = "graph"
    /\ UNCHANGED <<sidebar, flags, download, aborted, call, arg, ret>>

\* Microsoft Graph actions: the checkboxes, the credentials, get_graph_token
\* (which catches every exception and returns (None, error) instead)
GraphActions ==
    /\ pc = "graph"
    /\ \E au \in BOOLEAN, ae \in BOOLEAN, filled \in BOOLEAN, token \in BOOLEAN :
          IF ~(au \/ ae)
          THEN /\ pc' = "download"
               /\ UNCHANGED <<msgs, flags>>
          ELSE IF ~filled
          THEN /\ pc' = "download"
               /\ msgs' = Append(msgs, Msg("warning", "To use OneDrive/Email, please fill ..."))
               /\ UNCHANGED flags
          ELSE IF ~token
          THEN /\ pc' = "download"
               /\ msgs' = Append(msgs, Msg("error", "Graph auth failed"))
               /\ UNCHANGED flags
          ELSE /\ pc' = "upload"
               /\ flags' = [auto_upload |-> au, auto_email |-> ae]
               /\ UNCHANGED msgs
    /\ UNCHANGED <<order_lines, event, sidebar, auto_filename, pdf, download, aborted,
                   call, arg, ret>>

\* if auto_upload: onedrive_upload_file(...): requests.put answers with a
\* status code or raises (timeout, connection error); nothing catches it
Upload ==
    /\ pc = "upload"
    /\ IF flags.auto_upload
       THEN \/ \E code \in StatusCodes :
                 /\ msgs' = Append(msgs,
                       IF 200 <= code /\ code < 300
                       THEN Msg("success", "Uploaded to OneDrive.")
                       ELSE MsgCode("error", "OneDrive upload failed", code))
                 /\ pc' = "mail"
                 /\ UNCHANGED aborted
            \/ /\ aborted' = TRUE
               /\ pc' = "done"
               /\ UNCHANGED msgs
       ELSE /\ pc' = "mail"
            /\ UNCHANGED <<msgs, aborted>>
    /\ UNCHANGED <<order_lines, event, sidebar, auto_filename, flags, pdf, download,
                   call, arg, ret>>

\* if auto_email and email_to.strip(): graph_send_mail(...): requests.post
\* answers with a status code or raises; nothing catches it
SendMail ==
    /\ pc = "mail"
    /\ \E has_recipient \in BOOLEAN :
          IF flags.auto_email /\ has_recipient
          THEN \/ \E code \in StatusCodes :
                    /\ msgs' = Append(msgs,
                          IF 200 <= code /\ code < 300
                          THEN Msg("success", "Email sent via Microsoft Graph.")
                          ELSE MsgCode("error", "Email send failed", code))
                    /\ pc' = "download"
                    /\ UNCHANGED aborted
               \/ /\ aborted' = TRUE
                  /\ pc' = "done"
                  /\ UNCHANGED msgs
          ELSE /\ pc' = "download"
               /\ UNCHANGED <<msgs, aborted>>
    /\ UNCHANGED <<order_lines, event, sidebar, auto_filename, flags, pdf, download,
                   call, arg, ret>>

\* st.download_button(data=pdf_buffer, file_name=auto_filename)
DownloadButton ==
    /\ pc = "download"
    /\ download' = [t |-> "button", data |-> pdf, file_name |-> auto_filename]
    /\ pc' = "done"
    /\ UNCHANGED <<order_lines, event, sidebar, auto_filename, flags, msgs, pdf, aborted,
                   call, arg, ret>>

Next ==
    \/ SubmitLine
    \/ PressClear
    \/ ChangeWidget
    \/ LineForm
    \/ OverviewEmpty
    \/ OverviewExport
    \/ GraphActions
    \/ Upload
    \/ SendMail
    \/ DownloadButton

Spec == Init /\ [][Next]_vars

----------------------------------------------------------------------------
(* The helpers called directly, on arguments drawn from bounded sets *)

MaxMantissa == 13
MaxNameLen == 4
MaxRowCount == 30
MaxWeight == 3
MaxCols == 3
MaxTarget == 3

SeqsUpTo(S, n) == UNION {[1..k -> S] : k \in 0..n}

\* amounts: whole euros, halves, eighths, cents, half-cents, thousandths,
\* of both signs, up to seven integer digits
EurAmounts ==
    {Rat(sgn * m * k, d) : m \in 0..MaxMantissa, k \in {1, 37, 2469, 123457},
                           d \in {1, 2, 8, 100, 200, 1000}, sgn \in {1, -1}}

EurFmtArgs ==
    {Num(q) : q \in EurAmounts}
    \cup {None, NaN, Inf(FALSE), Inf(TRUE)}
    \cup {Str(s) : s \in {<<>>, <<"a","b","c">>, <<"1","2">>, <<" ","1",".","5"," ">>, <<"-","7">>, <<"n","a","n">>, <<"1",",","5">>}}

\* "~" stands for the no-break space, "/" for any character outside
\* [A-Za-z0-9\-_\s.] (non-ASCII letters included)
NameAlphabet == {".", "p", "d", "f", "F", " ", "~", "/"}

SanitizeArgs == {None} \cup {Str(s) : s \in SeqsUpTo(NameAlphabet, MaxNameLen)}

ScaleArgs ==
    [widths : {[i \in DOMAIN ws |-> RatInt(ws[i])] : ws \in SeqsUpTo(0..MaxWeight, MaxCols)},
     target : {RatInt(k) : k \in 1..MaxTarget}]

TextSamples ==
    {<<>>, <<" ">>, <<"n","a","n">>, <<" ","N","a","N"," ">>, <<"N","o","n","e">>, <<"N","U","L","L">>, <<"B","l","u","e">>, <<" ","E","P","E">>, <<"1","\""," ","d","r","a","i","n">>, <<"B","I","-","5","6","5">>}

\* one line as add_line stores it, with the given field texts
SampleLine(g, model, color, wall, drain) ==
    [k \in {"Product_group", "Quantity", "Note", "Net_price", "Total"} \cup PRODUCT_TYPES[g] |->
        CASE k = "Product_group" -> Str(g)
          [] k = "Quantity" -> 1
          [] k = "Note" -> Str(<<>>)
          [] k = "Net_price" -> RatInt(0)
          [] k = "Total" -> RatInt(0)
          [] k = "Model" -> Str(model)
          [] k = "Color" -> Str(color)
          [] k = "Wall_build" -> Str(wall)
          [] k = "Drain" -> Str(drain)]

\* frames of one line, and frames whose first line is a lid and whose
\* second is a bin (the frame then has a Drain column the lid reads as NaN)
ArticleArgs ==
    {[lines |-> <<SampleLine(g, m, c, w, d)>>, i |-> 1] :
        g \in DOMAIN PRODUCT_TYPES, m \in TextSamples, c \in TextSamples,
        w \in TextSamples, d \in TextSamples}
    \cup
    {[lines |-> <<SampleLine(<<"L","i","d","s">>, m, c, w, <<>>),
                  SampleLine(<<"B","i","n","s">>, <<>>, <<>>, <<>>, <<"2","\""," ","d","r","a","i","n">>)>>, i |-> 1] :
        m \in TextSamples, c \in TextSamples, w \in TextSamples}

LibInit(fn, args) ==
    /\ AppStart
    /\ call = fn
    /\ arg \in args
    /\ ret = NotCalled

InitLib ==
    \/ LibInit("eur_fmt", EurFmtArgs)
    \/ LibInit("scale_mm", ScaleArgs)
    \/ LibInit("col_w_mm", {[widths |-> base_mm, target |-> RatInt(target_total_mm)]})
    \/ LibInit("sanitize_filename", SanitizeArgs)
    \/ LibInit("fonts", 0..MaxRowCount)
    \/ LibInit("article", ArticleArgs)

Return(value) ==
    /\ ret = NotCalled
    /\ ret' = [t |-> "ret", v |-> value]
    /\ UNCHANGED <<appVars, call, arg>>

CallEurFmt ==
    /\ call = "eur_fmt"
    /\ \E up \in BOOLEAN : Return(eur_fmt(arg, up))

CallScaleMm ==
    /\ call = "scale_mm"
    /\ Return(scale_mm(arg.widths, arg.target))

\* build_pdf: col_w_mm = scale_mm(base_mm, target_total_mm)
ColumnWidths ==
    /\ call = "col_w_mm"
    /\ Return(scale_mm(arg.widths, arg.target))

CallSanitizeFilename ==
    /\ call = "sanitize_filename"
    /\ Return(sanitize_filename(arg))

\* build_pdf: rows, body_font, small_font for a frame of arg rows
ChooseFonts ==
    /\ call = "fonts"
    /\ Return([body_font |-> body_font(arg), small_font |-> small_font(body_font(arg))])

\* build_pdf: the article of row arg.i of the frame arg.lines
BuildArticle ==
    /\ call = "article"
    /\ Return(article(arg.lines, arg.lines[arg.i]))

NextLib ==
    \/ CallEurFmt
    \/ CallScaleMm
    \/ ColumnWidths
    \/ CallSanitizeFilename
    \/ ChooseFonts
    \/ BuildArticle

SpecLib == InitLib /\ [][NextLib]_vars

----------------------------------------------------------------------------
(* Reading back what the page shows *)

Returned == ret.t = "ret"

AllDigits(s) == s # <<>> /\ \A i \in DOMAIN s : IsDigit(s[i])

\* the number a cell of decimal digits shows, -1 if it is no such cell
ShownNat(s) == IF AllDigits(s) THEN DigitsValue(s) ELSE -1

\* s is [-]d{1,3}(.ddd)*,dd without a superfluous leading zero
WellFormedEur(s) ==
    LET body == IF s # <<>> /\ s[1] = "-" THEN Tail(s) ELSE s
        n == Len(body)
    IN  /\ n >= 4
        /\ body[n - 2] = ","
        /\ IsDigit(body[n - 1])
        /\ IsDigit(body[n])
        /\ (n - 3) % 4 # 0
        /\ \A i \in 1..(n - 3) :
              IF (n - 3 - i + 1) % 4 = 0 THEN body[i] = "." ELSE IsDigit(body[i])
        /\ (n - 3 > 1 => body[1] # "0")

\* the amount a well-formed money text shows
ShownEur(s) ==
    LET cents == DigitsValue(SelectSeq(s, IsDigit))
    IN  IF s[1] = "-" THEN Rat(0 - cents, 100) ELSE Rat(cents, 100)

\* the text shows q rounded to a whole cent, and the sign of q
ShowsRounded(s, q) ==
    /\ WellFormedEur(s)
    /\ (s[1] = "-") <=> (q.n < 0)
    /\ LET cents == DigitsValue(SelectSeq(s, IsDigit))
           diff == 2 * (cents * q.d - 100 * Abs(q.n))
       IN  0 - q.d <= diff /\ diff <= q.d

ZeroEur == <<"0",",","0","0">>

DeliveryFailed == aborted \/ \E i \in DOMAIN msgs : msgs[i].kind = "error"

ClearedRun == \E i \in DOMAIN msgs : msgs[i] = Msg("warning", "All positions cleared.")

----------------------------------------------------------------------------
(* C1 *)

\* C1: once the document is built, every failure of the delivery step
\* (token, non-2xx answer, or the upload/send call itself failing) is only
\* reported as a message: the run is not aborted and ends with the download
\* of the built document, same bytes.
C1_DeliveryFailureIsAdvisory ==
    (pc = "done" /\ pdf # NoPdf /\ DeliveryFailed) =>
        /\ ~aborted
        /\ \E i \in DOMAIN msgs : msgs[i].kind = "error"
        /\ download = [t |-> "button", data |-> pdf, file_name |-> auto_filename]

\* C1, the part the code keeps: a run that is not ended by an exception
\* offers the download of the built document whatever the messages say
C1_ReportedFailureKeepsDownload ==
    (pc = "done" /\ pdf # NoPdf /\ ~aborted) =>
        download = [t |-> "button", data |-> pdf, file_name |-> auto_filename]

----------------------------------------------------------------------------
(* C2 *)

\* C2: build_pdf on the empty list (the run in which "Clear all positions"
\* is pressed) succeeds: the table is the header row alone and net, VAT and
\* gross are shown as "0,00", whatever the VAT rate.
C2_EmptyListBuilds ==
    ClearedRun =>
        /\ order_lines = <<>>
        /\ pdf # NoPdf
        /\ pdf.data = <<header>>
        /\ pdf.totals.net = ZeroEur
        /\ pdf.totals.vat = ZeroEur
        /\ pdf.totals.gross = ZeroEur

C2_Witness ==
    /\ ClearedRun
    /\ pdf # NoPdf
    /\ sidebar.vat_rate = Rat(43, 200)
    /\ pc = "done"
    /\ download # NoDownload

----------------------------------------------------------------------------
(* C3 *)

RECURSIVE SumFromEnd(_)
SumFromEnd(qs) ==
    IF qs = <<>> THEN RatInt(0)
    ELSE RatAdd(qs[Len(qs)], SumFromEnd(SubSeq(qs, 1, Len(qs) - 1)))

LineTotals == [i \in DOMAIN order_lines |-> order_lines[i]["Total"]]

\* C3: netSum is the sum of the lines' totals, vatAmount = netSum * vatRate,
\* grossSum = netSum + vatAmount, all exact (nothing is rounded before it
\* is shown).
C3_Totals ==
    pdf # NoPdf =>
        LET net == SumFromEnd(LineTotals)
            rate == sidebar.vat_rate
            vat == pdf.vat_amount
            gr == pdf.gross
        IN  /\ pdf.net_sum = net
            /\ vat.n * rate.d * net.d = net.n * rate.n * vat.d
            /\ gr.n * net.d * vat.d = (net.n * vat.d + vat.n * net.d) * gr.d

C3_Witness ==
    /\ pdf # NoPdf
    /\ LineTotals = <<RatInt(100), RatInt(200)>>
    /\ sidebar.vat_rate = Rat(21, 100)
    /\ pdf.net_sum = RatInt(300)
    /\ pdf.vat_amount = RatInt(63)
    /\ pdf.gross = RatInt(363)

----------------------------------------------------------------------------
(* C4 *)

SameIgnoringCase(a, b) ==
    Len(a) = Len(b) /\ \A i \in DOMAIN a : LowerChar(a[i]) = LowerChar(b[i])

\* absent: no text at all, empty or whitespace-only, or nan/none/null in
\* any letter case (surrounding whitespace not counted)
FieldAbsent(v) ==
    \/ v.t # "str"
    \/ \A i \in DOMAIN v.s : IsSpace(v.s[i])
    \/ \E w \in {<<"n","a","n">>, <<"n","o","n","e">>, <<"n","u","l","l">>} : SameIgnoringCase(Strip(v.s), w)

FieldOf(row, key) == IF key \in DOMAIN row THEN row[key] ELSE None

ExpectedArticle(row) ==
    LET g == FieldOf(row, "Product_group")
        m == FieldOf(row, "Model")
        w == FieldOf(row, "Wall_build")
        c == FieldOf(row, "Color")
        d == FieldOf(row, "Drain")
        cand == <<[on |-> ~FieldAbsent(g), of |-> g, pre |-> <<>>, post |-> <<>>],
                  [on |-> ~FieldAbsent(m), of |-> m, pre |-> <<"M","o","d","."," ">>, post |-> <<>>],
                  [on |-> ~FieldAbsent(w), of |-> w, pre |-> <<"(">>, post |-> <<")">>],
                  [on |-> ~FieldAbsent(c), of |-> c, pre |-> <<>>, post |-> <<>>],
                  [on |-> ~FieldAbsent(g) /\ Strip(g.s) = <<"B","i","n","s">> /\ ~FieldAbsent(d),
                   of |-> d, pre |-> <<"d","r","a","i","n",":"," ">>, post |-> <<>>]>>
        sel == SelectSeq(cand, LAMBDA x : x.on)
    IN  Join(<<","," ">>, [i \in DOMAIN sel |-> sel[i].pre \o Strip(sel[i].of.s) \o sel[i].post])

NoStraySeparator(s) ==
    /\ s # <<>> => s[1] # "," /\ s[Len(s)] # "," /\ s[Len(s)] # " "
    /\ \A i \in 1..(Len(s) - 2) : ~(s[i] = "," /\ s[i + 1] = " " /\ s[i + 2] = ",")

\* C4: the article is exactly the present parts, in the order group,
\* "Mod. " + model, "(" + wall build + ")", color, "drain: " + drain (the
\* last for Bins only), joined with ", "; empty, blank and nan/none/null
\* values are absent, so no empty part or stray separator appears.
C4_Article ==
    (call = "article" /\ Returned) =>
        /\ ret.v = ExpectedArticle(arg.lines[arg.i])
        /\ NoStraySeparator(ret.v)

C4_Witness ==
    /\ call = "article"
    /\ Returned
    /\ arg.lines[1]["Model"] = Str(<<"B","I","-","5","6","5">>)
    /\ ret.v = <<"B","i","n","s",","," ","M","o","d","."," ","B","I","-","5","6","5",","," ","(","E","P","E",")",","," ","B","l","u","e",","," ","d","r","a","i","n",":"," ","1","\""," ","d","r","a","i","n">>

----------------------------------------------------------------------------
(* C5 *)

\* C5: body font 8 up to 18 rows, 7 up to 24 rows, 6 above; small font 7
\* when the body font is at least 7, else 6.
C5_Fonts ==
    (call = "fonts" /\ Returned) =>
        /\ arg <= 18 => ret.v.body_font = 8
        /\ (18 < arg /\ arg <= 24) => ret.v.body_font = 7
        /\ arg > 24 => ret.v.body_font = 6
        /\ ret.v.small_font = (IF ret.v.body_font >= 7 THEN 7 ELSE 6)
        /\ arg = 10 => ret.v = [body_font |-> 8, small_font |-> 7]
        /\ arg = 20 => ret.v = [body_font |-> 7, small_font |-> 7]
        /\ arg = 30 => ret.v = [body_font |-> 6, small_font |-> 6]

C5_Witness ==
    /\ call = "fonts"
    /\ arg = 30
    /\ Returned
    /\ ret.v = [body_font |-> 6, small_font |-> 6]

----------------------------------------------------------------------------
(* C6 *)

LineOk(l) ==
    /\ l["Quantity"] >= 1
    /\ l["Net_price"].n >= 0
    /\ l["Total"].n * l["Net_price"].d = l["Quantity"] * l["Net_price"].n * l["Total"].d

\* C6: every step keeps total = quantity * netPrice, quantity >= 1 and
\* netPrice >= 0 for every line of the session; the add step appends
\* exactly one line, the submitted one, at the end; the clear step leaves
\* the collection empty.
C6_LineCollection ==
    [][/\ \A i \in DOMAIN order_lines' : LineOk(order_lines'[i])
       /\ (pc = "form" /\ event.kind = "add") =>
             /\ Len(order_lines') = Len(order_lines) + 1
             /\ SubSeq(order_lines', 1, Len(order_lines)) = order_lines
             /\ order_lines'[Len(order_lines')]["Quantity"] = event.in.qty
             /\ order_lines'[Len(order_lines')]["Net_price"] = event.in.net_price
             /\ order_lines'[Len(order_lines')]["Product_group"] = Str(event.in.product_type)
       /\ (pc = "overview" /\ event.kind = "clear") => order_lines' = <<>>
      ]_vars

C6_Witness ==
    /\ pc = "overview"
    /\ event.kind = "add"
    /\ Len(order_lines) = 2
    /\ order_lines[1]["Total"] = RatInt(0)
    /\ order_lines[2]["Total"] = RatInt(200)
    /\ order_lines[2]["Quantity"] = 2

----------------------------------------------------------------------------
(* C7 *)

SafeChar(c) == IsLetter(c) \/ IsDigit(c) \/ c \in {"-", "_", "."}

BlankName(x) == x.t = "none" \/ \A i \in DOMAIN x.s : IsSpace(x.s[i])

\* C7 as stated: the result is a token of safe characters without
\* whitespace followed by exactly ".pdf"; "supplier_order.pdf" for an
\* empty, missing or whitespace-only identifier.
C7_FixedExtension ==
    (call = "sanitize_filename" /\ Returned) =>
        /\ \A i \in DOMAIN ret.v : SafeChar(ret.v[i]) /\ ~IsSpace(ret.v[i])
        /\ EndsWith(ret.v, <<".","p","d","f">>)
        /\ BlankName(arg) => ret.v = <<"s","u","p","p","l","i","e","r","_","o","r","d","e","r",".","p","d","f">>

\* C7 amended: the result consists of safe characters without whitespace
\* and ends with ".pdf" in some letter case: exactly ".pdf" unless the
\* identifier's own safe characters already end with ".pdf" written in
\* another letter case, which is kept as written; "supplier_order.pdf" for
\* an empty, missing or whitespace-only identifier.
C7_ExtensionAnyCase ==
    (call = "sanitize_filename" /\ Returned) =>
        /\ \A i \in DOMAIN ret.v : SafeChar(ret.v[i]) /\ ~IsSpace(ret.v[i])
        /\ Len(ret.v) >= 4
        /\ SameIgnoringCase(SubSeq(ret.v, Len(ret.v) - 3, Len(ret.v)), <<".","p","d","f">>)
        /\ (~EndsWith(ret.v, <<".","p","d","f">>) =>
              /\ arg.t = "str"
              /\ LET kept == SelectSeq(arg.s, SafeChar)
                 IN  /\ Len(kept) >= 4
                     /\ SubSeq(kept, Len(kept) - 3, Len(kept))
                           = SubSeq(ret.v, Len(ret.v) - 3, Len(ret.v)))
        /\ BlankName(arg) => ret.v = <<"s","u","p","p","l","i","e","r","_","o","r","d","e","r",".","p","d","f">>

C7_Witness ==
    /\ call = "sanitize_filename"
    /\ Returned
    /\ arg = Str(<<".", "p", "d", "F">>)
    /\ ret.v = <<".", "p", "d", "F">>

----------------------------------------------------------------------------
(* C8 *)

\* C8: eur_fmt never raises; a numeric amount is shown with two decimals,
\* "," before them and "." between groups of three integer digits; any
\* non-numeric or missing input gives "".
C8_EurFmt ==
    (call = "eur_fmt" /\ Returned) =>
        IF arg.t = "num" THEN ShowsRounded(ret.v, arg.q)
        ELSE IF arg.t = "str" /\ ToFloat(arg).t = "num"
             THEN ShowsRounded(ret.v, ToFloat(arg).q)
        ELSE ret.v = <<>>

\* C8, the part the code keeps: finite amounts are shown rounded to the
\* cent in the German format, None and texts that float() rejects give ""
C8_FiniteAmounts ==
    (call = "eur_fmt" /\ Returned) =>
        /\ arg.t = "num" => ShowsRounded(ret.v, arg.q)
        /\ arg = Num(RatInt(0)) => ret.v = <<"0",",","0","0">>
        /\ arg = Num(Rat(2469, 2)) => ret.v = <<"1",".","2","3","4",",","5","0">>
        /\ arg \in {None, Str(<<"a","b","c">>), Str(<<>>)} => ret.v = <<>>

----------------------------------------------------------------------------
(* C9 *)

\* C9: for positive weights and a positive target, scale_mm keeps length
\* and order, the i-th width is weight_i * T / sum(weights), and the
\* widths sum to T; the seven columns of build_pdf sum to the printable
\* width, 210 mm less the two 15 mm margins.
C9_ScaleMm ==
    (/\ call \in {"scale_mm", "col_w_mm"}
     /\ Returned
     /\ arg.widths # <<>>
     /\ \A i \in DOMAIN arg.widths : arg.widths[i].n > 0) =>
        LET s == SumFromEnd(arg.widths)
            T == arg.target
        IN  /\ Len(ret.v) = Len(arg.widths)
            /\ \A i \in DOMAIN arg.widths :
                  ret.v[i].n * s.n * T.d * arg.widths[i].d
                     = arg.widths[i].n * T.n * s.d * ret.v[i].d
            /\ SumFromEnd(ret.v) = T
            /\ call = "col_w_mm" =>
                  /\ Len(ret.v) = 7
                  /\ SumFromEnd(ret.v) = RatInt(PageWidthMm - left_margin - right_margin)

C9_Witness ==
    /\ call = "col_w_mm"
    /\ Returned
    /\ ret.v[3] = Rat(85 * 180, 220)

----------------------------------------------------------------------------
(* C10 *)

\* C10: the table has one row more than there are lines: the header, then
\* one row per line in the order of the collection; row k shows position
\* k and the quantity, net price and total of line k.
C10_TableRows ==
    pdf # NoPdf =>
        /\ Len(pdf.data) = Len(order_lines) + 1
        /\ pdf.data[1] = header
        /\ \A k \in DOMAIN order_lines :
              LET r == pdf.data[k + 1]
                  l == order_lines[k]
              IN  /\ Len(r) = 7
                  /\ ShownNat(r[1]) = k
                  /\ ShownNat(r[2]) = l["Quantity"]
                  /\ WellFormedEur(r[6]) /\ ShownEur(r[6]) = l["Net_price"]
                  /\ WellFormedEur(r[7]) /\ ShownEur(r[7]) = l["Total"]

C10_Witness ==
    /\ pdf # NoPdf
    /\ Len(pdf.data) = 3
    /\ order_lines[1]["Total"] = RatInt(100)
    /\ order_lines[2]["Total"] = RatInt(0)
    /\ pdf.data[3][1] = <<"2">>
    /\ pdf.data[2][7] = <<"1","0","0",",","0","0">>

----------------------------------------------------------------------------
(* C11 *)

\* the whole number a VAT % cell "p%" shows, -1 if it is no such cell
CellPercent(s) ==
    IF s # <<>> /\ s[Len(s)] = "%" THEN ShownNat(SubSeq(s, 1, Len(s) - 1)) ELSE -1

\* the whole number the totals label "VAT (p%):" shows, -1 if it is no
\* such label
LabelPercent(s) ==
    IF /\ Len(s) > 8
       /\ SubSeq(s, 1, 5) = <<"V","A","T"," ","(">>
       /\ SubSeq(s, Len(s) - 2, Len(s)) = <<"%",")",":">>
    THEN ShownNat(SubSeq(s, 6, Len(s) - 3))
    ELSE -1

\* p is exactly 100 * rate
IsPercentOf(p, rate) == p * rate.d = 100 * rate.n

\* C11: in every document the percentage printed in the VAT % cell of
\* each item row and in the totals label "VAT (p%):" is 100 times the
\* rate the VAT amount of that document is computed with.
C11_PrintedVatPercent ==
    pdf # NoPdf =>
        /\ pdf.vat_amount = vat_amount(pdf.net_sum, sidebar.vat_rate)
        /\ IsPercentOf(LabelPercent(pdf.totals.vat_label), sidebar.vat_rate)
        /\ \A k \in 2..Len(pdf.data) :
              IsPercentOf(CellPercent(pdf.data[k][5]), sidebar.vat_rate)

\* C11, the part the code keeps: the cells and the label show one and the
\* same whole number p, which is 100 * rate with its fraction cut off or,
\* where the double product falls just below a whole number, one less:
\* 100 * rate - 1 <= p <= 100 * rate.
C11_PercentCutOff ==
    pdf # NoPdf =>
        LET p == LabelPercent(pdf.totals.vat_label)
            rate == sidebar.vat_rate
        IN  /\ p >= 0
            /\ p * rate.d <= 100 * rate.n
            /\ 100 * rate.n <= (p + 1) * rate.d
            /\ \A k \in 2..Len(pdf.data) : CellPercent(pdf.data[k][5]) = p

====
